---- MODULE Spec2Model ----
(***************************************************************************)
(* Model of internal/github/github.go of kube-signalhound: the             *)
(* ProjectManager that discovers the fields of a GitHub project, resolves  *)
(* the K8s Release / View / Status / Board fields and their option values, *)
(* creates a draft issue and updates its fields.                           *)
(*                                                                         *)
(* Go strings are modelled as sequences of one-character strings, so that  *)
(* strings.ToLower, strings.Contains, strings.Split, the regular           *)
(* expression of extractVersion and strconv.Atoi are computed and not      *)
(* assumed.  The remote GraphQL API is the environment: it holds the nodes *)
(* of the project and answers each query and mutation, and the calls it    *)
(* receives are recorded with its answers.                                 *)
(***************************************************************************)
EXTENDS Integers, Sequences, FiniteSets, TLC

VARIABLES
    token,      \* the credential handed to NewProjectManager
    g,          \* the ProjectManager NewProjectManager returned
    schema,     \* the remote project: the nodes the fields query answers with
    pc,         \* "idle" before the operation is called, "done" after it returned
    op,         \* the operation called and its arguments
    calls,      \* the remote calls the client issued, in order
    ret,        \* what the operation returned: [err, fields]
    targets,    \* CreateDraftIssue's locals: the four field IDs and value IDs
    warnings,   \* the "Warning: failed to update ..." lines printed, in order
    v1, v2,     \* the arguments of compareVersions (version harness)
    cmp         \* the value compareVersions returned (version harness)

vars == <<token, g, schema, pc, op, calls, ret, targets, warnings, v1, v2, cmp>>

(***************************************************************************)
(* Bounds of the model.                                                    *)
(***************************************************************************)
MaxNodes == 2
MaxParts == 2

(***************************************************************************)
(* Strings.                                                                *)
(***************************************************************************)
UpperLetters == <<"A","B","C","D","E","F","G","H","I","J","K","L","M","N","O","P","Q","R","S","T","U","V","W","X","Y","Z">>
LowerLetters == <<"a","b","c","d","e","f","g","h","i","j","k","l","m","n","o","p","q","r","s","t","u","v","w","x","y","z">>
DigitChars == <<"0","1","2","3","4","5","6","7","8","9">>

IsDigit(c) == \E i \in 1..10 : DigitChars[i] = c

DigitVal(c) == (CHOOSE i \in 1..10 : DigitChars[i] = c) - 1

LowerChar(c) ==
    IF \E i \in 1..26 : UpperLetters[i] = c
    THEN LowerLetters[CHOOSE i \in 1..26 : UpperLetters[i] = c]
    ELSE c

\* strings.ToLower, on the ASCII letters
ToLower(s) == [i \in 1..Len(s) |-> LowerChar(s[i])]

\* strings.Contains(s, substr)
Contains(s, substr) ==
    \E i \in 0..(Len(s) - Len(substr)) : SubSeq(s, i + 1, i + Len(substr)) = substr

\* strings.Split(s, sep) for a one-character separator
RECURSIVE Split(_, _)
Split(s, sep) ==
    IF \A i \in 1..Len(s) : s[i] # sep
    THEN <<s>>
    ELSE LET i == CHOOSE k \in 1..Len(s) :
                      s[k] = sep /\ \A j \in 1..(k - 1) : s[j] # sep
         IN  <<SubSeq(s, 1, i - 1)>> \o Split(SubSeq(s, i + 1, Len(s)), sep)

(***************************************************************************)
(* Integers of Go's type int (64 bits), as decimal numerals without        *)
(* leading zeros: <<>> is 0.  strconv.Atoi returns 0 for a string that is  *)
(* not a number and the largest int for a number out of range; its error   *)
(* is dropped by compareVersions.  The strings of this model hold no sign. *)
(***************************************************************************)
MaxInt == <<"9","2","2","3","3","7","2","0","3","6","8","5","4","7","7","5","8","0","7">>

Zero == <<>>

RECURSIVE StripZeros(_)
StripZeros(s) ==
    IF s # <<>> /\ s[1] = "0" THEN StripZeros(Tail(s)) ELSE s

\* a < b for two numerals
NumLess(a, b) ==
    \/ Len(a) < Len(b)
    \/ /\ Len(a) = Len(b)
       /\ \E i \in 1..Len(a) :
            /\ \A j \in 1..(i - 1) : a[j] = b[j]
            /\ DigitVal(a[i]) < DigitVal(b[i])

Atoi(s) ==
    IF s = <<>> \/ \E i \in 1..Len(s) : ~IsDigit(s[i])
    THEN Zero
    ELSE LET n == StripZeros(s)
         IN  IF NumLess(MaxInt, n) THEN MaxInt ELSE n

(***************************************************************************)
(* Version utility.                                                        *)
(***************************************************************************)
\* the last index of the run of digits that starts at i
RECURSIVE DigitRunEnd(_, _)
DigitRunEnd(text, i) ==
    IF i + 1 <= Len(text) /\ IsDigit(text[i + 1])
    THEN DigitRunEnd(text, i + 1)
    ELSE i

\* where the first group starts when v?(\d+)\.(\d+) matches at i, 0 when it does not
MatchAt(text, i) ==
    LET d == IF text[i] = "v" THEN i + 1 ELSE i
    IN  IF /\ d <= Len(text)
           /\ IsDigit(text[d])
           /\ LET e == DigitRunEnd(text, d)
              IN  /\ e + 2 <= Len(text)
                  /\ text[e + 1] = "."
                  /\ IsDigit(text[e + 2])
        THEN d
        ELSE 0

extractVersion(text) ==
    LET starts == {i \in 1..Len(text) : MatchAt(text, i) # 0}
    IN  IF starts = {}
        THEN <<>>
        ELSE LET i  == CHOOSE k \in starts : \A j \in starts : k <= j
                 d  == MatchAt(text, i)
                 e  == DigitRunEnd(text, d)
                 e2 == DigitRunEnd(text, e + 2)
             IN  SubSeq(text, d, e) \o <<".">> \o SubSeq(text, e + 2, e2)

\* the loop of compareVersions from index i (0-based, as in the source)
RECURSIVE compareLoop(_, _, _, _)
compareLoop(parts1, parts2, i, maxLen) ==
    IF i >= maxLen
    THEN 0
    ELSE LET num1 == IF i < Len(parts1) THEN Atoi(parts1[i + 1]) ELSE Zero
             num2 == IF i < Len(parts2) THEN Atoi(parts2[i + 1]) ELSE Zero
         IN  IF NumLess(num2, num1) THEN 1
             ELSE IF NumLess(num1, num2) THEN -1
             ELSE compareLoop(parts1, parts2, i + 1, maxLen)

\* faulty variant: no padding: the components both strings have are compared, and
\* then the string with more components is the greater
compareVersionsUnpadded(a, b) ==
    LET parts1 == Split(a, ".")
        parts2 == Split(b, ".")
        minLen == IF Len(parts2) < Len(parts1) THEN Len(parts2) ELSE Len(parts1)
        common == compareLoop(parts1, parts2, 0, minLen)
    IN  IF common # 0 THEN common
        ELSE IF Len(parts1) > Len(parts2) THEN 1
        ELSE IF Len(parts1) < Len(parts2) THEN -1
        ELSE 0

compareVersions(a, b) ==
    LET parts1 == Split(a, ".")
        parts2 == Split(b, ".")
        maxLen == IF Len(parts2) > Len(parts1) THEN Len(parts2) ELSE Len(parts1)
    IN  compareLoop(parts1, parts2, 0, maxLen)

(***************************************************************************)
(* g4.ID is an interface type: its zero value is nil, and a non-nil ID     *)
(* holds a string.  Two IDs are equal when they hold the same dynamic      *)
(* type and value, so the nil ID differs from the ID holding "".           *)
(***************************************************************************)
NilID == [dyn |-> "nil", val |-> ""]

ID(s) == [dyn |-> "string", val |-> s]

\* fmt.Sprintf("%s", id)
Sprintf_s(id) == IF id.dyn = "string" THEN id.val ELSE "%!s(<nil>)"

PROJECT_ID == "PVT_kwDOAM_34M4AAThW"

ORGANIZATION == "kubernetes"

\* an error is the chain of its messages, outermost first; nil is the empty chain
NilErr == <<>>

ErrNilClient == <<"github GraphQL client is nil">>

\* fmt.Errorf(msg + ": %w", err)
Errorf(msg, err) == <<msg>> \o err

\* oauth2.NewClient / g4.NewClient: a client for whatever token it is given
NewClient(tok) == [isNil |-> FALSE, AccessToken |-> tok]

NewProjectManager(tok) ==
    [organization |-> ORGANIZATION,
     projectID    |-> PROJECT_ID,
     fields       |-> <<>>,
     githubClient |-> NewClient(tok)]

(***************************************************************************)
(* The remote project.  A node of the fields query carries its __typename  *)
(* and the two inline fragments; a fragment that does not apply to the     *)
(* node is left at its zero value.                                         *)
(***************************************************************************)
TSingleSelect == "ProjectV2SingleSelectField"

TIteration == "ProjectV2IterationField"

TOther == "ProjectV2Field"

ZeroSingleSelect == [ID |-> NilID, Name |-> <<>>, Options |-> <<>>]

ZeroIteration == [ID |-> NilID, Name |-> <<>>]

SingleSelectNode(id, name, opts) ==
    [Typename |-> TSingleSelect,
     ProjectV2SingleSelectField |-> [ID |-> id, Name |-> name, Options |-> opts],
     ProjectV2IterationField |-> ZeroIteration]

IterationNode(id, name) ==
    [Typename |-> TIteration,
     ProjectV2SingleSelectField |-> ZeroSingleSelect,
     ProjectV2IterationField |-> [ID |-> id, Name |-> name]]

OtherNode ==
    [Typename |-> TOther,
     ProjectV2SingleSelectField |-> ZeroSingleSelect,
     ProjectV2IterationField |-> ZeroIteration]

(***************************************************************************)
(* GetProjectFields.                                                       *)
(***************************************************************************)
\* the options map of a single-select node: a later option of the same name
\* overwrites an earlier one
optionsMap(opts) ==
    [n \in {opts[k].Name : k \in 1..Len(opts)} |->
        opts[CHOOSE k \in 1..Len(opts) :
                /\ opts[k].Name = n
                /\ \A j \in (k + 1)..Len(opts) : opts[j].Name # n].ID]

\* faulty variant: the loop without its default case: a node of another variant is
\* appended with the zero ID and name
RECURSIVE fieldsLoopNoSkip(_)
fieldsLoopNoSkip(nodes) ==
    IF nodes = <<>>
    THEN <<>>
    ELSE LET node == Head(nodes)
         IN  IF node.Typename = TSingleSelect
             THEN <<[ID      |-> node.ProjectV2SingleSelectField.ID,
                     Name    |-> node.ProjectV2SingleSelectField.Name,
                     Options |-> optionsMap(node.ProjectV2SingleSelectField.Options)]>>
                  \o fieldsLoopNoSkip(Tail(nodes))
             ELSE IF node.Typename = TIteration
             THEN <<[ID      |-> node.ProjectV2IterationField.ID,
                     Name    |-> node.ProjectV2IterationField.Name,
                     Options |-> optionsMap(<<>>)]>>
                  \o fieldsLoopNoSkip(Tail(nodes))
             ELSE <<[ID |-> NilID, Name |-> <<>>, Options |-> optionsMap(<<>>)]>>
                  \o fieldsLoopNoSkip(Tail(nodes))

\* the loop over query.Node.ProjectV2.Fields.Nodes
RECURSIVE fieldsLoop(_)
fieldsLoop(nodes) ==
    IF nodes = <<>>
    THEN <<>>
    ELSE LET node == Head(nodes)
         IN  IF node.Typename = TSingleSelect
             THEN <<[ID      |-> node.ProjectV2SingleSelectField.ID,
                     Name    |-> node.ProjectV2SingleSelectField.Name,
                     Options |-> optionsMap(node.ProjectV2SingleSelectField.Options)]>>
                  \o fieldsLoop(Tail(nodes))
             ELSE IF node.Typename = TIteration
             THEN <<[ID      |-> node.ProjectV2IterationField.ID,
                     Name    |-> node.ProjectV2IterationField.Name,
                     Options |-> optionsMap(<<>>)]>>
                  \o fieldsLoop(Tail(nodes))
             ELSE fieldsLoop(Tail(nodes))

\* the answers the remote may give to the fields query: it answers a client
\* that carries no token with an error only
QueryAnswers(client) ==
    IF client.AccessToken = ""
    THEN {"TransportError"}
    ELSE {"ok", "TransportError", "SchemaError"}

QueryCall(mgr, answer) ==
    [call |-> "query", projectID |-> mgr.projectID, itemID |-> NilID,
     fieldID |-> NilID, optionID |-> "", answer |-> answer]

\* GetProjectFields on manager mgr when the remote holds nodes and answers
\* the query with qAnswer: the calls issued and the values returned
getProjectFields(mgr, nodes, qAnswer) ==
    IF mgr.githubClient.isNil
    THEN [calls |-> <<>>, fields |-> <<>>, err |-> ErrNilClient]
    ELSE IF qAnswer # "ok"
    THEN [calls  |-> <<QueryCall(mgr, qAnswer)>>,
          fields |-> <<>>,
          err    |-> Errorf("failed to query project fields", <<qAnswer>>)]
    ELSE [calls  |-> <<QueryCall(mgr, qAnswer)>>,
          fields |-> fieldsLoop(nodes),
          err    |-> NilErr]

(***************************************************************************)
(* CreateDraftIssue: the resolution of the four fields.  A range over a Go *)
(* map visits the keys in an order the language leaves unspecified, and a  *)
(* new one for every range statement: each loop below takes the order it   *)
(* visits the option names in, and the action chooses among all of them.   *)
(***************************************************************************)
s_k8s_release == <<"k","8","s"," ","r","e","l","e","a","s","e">>
s_view == <<"v","i","e","w">>
s_board == <<"b","o","a","r","d">>
s_status == <<"s","t","a","t","u","s">>
s_issue_tracking_dash == <<"i","s","s","u","e","-","t","r","a","c","k","i","n","g">>
s_issue_tracking_space == <<"i","s","s","u","e"," ","t","r","a","c","k","i","n","g">>
s_drafting == <<"d","r","a","f","t","i","n","g">>
s_draft == <<"d","r","a","f","t">>

\* the orders in which a range over the map may visit its keys
Orders(options) ==
    LET keys == DOMAIN options
        n    == Cardinality(keys)
    IN  {o \in [1..n -> keys] : \A i, j \in 1..n : i # j => o[i] # o[j]}

ZeroTargets ==
    [k8sReleaseFieldID |-> NilID, viewFieldID |-> NilID,
     statusFieldID |-> NilID, boardFieldID |-> NilID,
     k8sReleaseValueID |-> NilID, viewValueID |-> NilID,
     statusValueID |-> NilID, boardValueID |-> NilID]

\* the range over the options of the K8s Release field: latestVersionID at its end
RECURSIVE releaseRange(_, _, _, _)
releaseRange(options, order, latestVersion, latestVersionID) ==
    IF order = <<>>
    THEN latestVersionID
    ELSE LET optName == Head(order)
             optID   == options[optName]
             version == extractVersion(optName)
         IN  IF /\ version # <<>>
                /\ (latestVersion = <<>> \/ compareVersions(version, latestVersion) > 0)
             THEN releaseRange(options, Tail(order), version, optID)
             ELSE releaseRange(options, Tail(order), latestVersion, latestVersionID)

isViewOption(optName) ==
    \/ Contains(ToLower(optName), s_issue_tracking_dash)
    \/ Contains(ToLower(optName), s_issue_tracking_space)

isBoardOption(optName, board) == Contains(board, ToLower(optName))

isStatusOption(optName) ==
    \/ Contains(ToLower(optName), s_drafting)
    \/ Contains(ToLower(optName), s_draft)

\* the ranges that stop at the first option they accept: the value ID at their end
RECURSIVE viewRange(_, _, _)
viewRange(options, order, viewValueID) ==
    IF order = <<>> THEN viewValueID
    ELSE IF isViewOption(Head(order)) THEN options[Head(order)]
    ELSE viewRange(options, Tail(order), viewValueID)

RECURSIVE boardRange(_, _, _, _)
boardRange(options, order, board, boardValueID) ==
    IF order = <<>> THEN boardValueID
    ELSE IF isBoardOption(Head(order), board) THEN options[Head(order)]
    ELSE boardRange(options, Tail(order), board, boardValueID)

RECURSIVE statusRange(_, _, _)
statusRange(options, order, statusValueID) ==
    IF order = <<>> THEN statusValueID
    ELSE IF isStatusOption(Head(order)) THEN options[Head(order)]
    ELSE statusRange(options, Tail(order), statusValueID)

\* the four blocks of the loop body, for one field
releaseBlock(t, field, order) ==
    IF Contains(ToLower(field.Name), s_k8s_release)
    THEN LET latestVersionID == releaseRange(field.Options, order, <<>>, ID(""))
         IN  [t EXCEPT !.k8sReleaseFieldID = field.ID,
                       !.k8sReleaseValueID =
                           IF latestVersionID # ID("") THEN latestVersionID ELSE @]
    ELSE t

viewBlock(t, field, order) ==
    IF Contains(ToLower(field.Name), s_view)
    THEN [t EXCEPT !.viewFieldID = field.ID,
                   !.viewValueID = viewRange(field.Options, order, @)]
    ELSE t

boardBlock(t, field, board, order) ==
    IF Contains(ToLower(field.Name), s_board)
    THEN [t EXCEPT !.boardFieldID = field.ID,
                   !.boardValueID = boardRange(field.Options, order, board, @)]
    ELSE t

statusBlock(t, field, order) ==
    IF Contains(ToLower(field.Name), s_status)
    THEN [t EXCEPT !.statusFieldID = field.ID,
                   !.statusValueID = statusRange(field.Options, order, @)]
    ELSE t

\* the orders of the range in a block: the range runs only when the name matches
rangeOrders(field, role) ==
    IF Contains(ToLower(field.Name), role) THEN Orders(field.Options) ELSE {<<>>}

\* the values the locals may have after the loop body ran for one field
fieldOutcomes(t, field, board) ==
    {statusBlock(boardBlock(viewBlock(releaseBlock(t, field, oR), field, oV),
                            field, board, oB), field, oS) :
        oR \in rangeOrders(field, s_k8s_release), oV \in rangeOrders(field, s_view),
        oB \in rangeOrders(field, s_board), oS \in rangeOrders(field, s_status)}

\* the values the locals may have after the loop over fields
RECURSIVE resolveOutcomes(_, _, _)
resolveOutcomes(fields, board, t) ==
    IF fields = <<>>
    THEN {t}
    ELSE UNION {resolveOutcomes(Tail(fields), board, t2) :
                    t2 \in fieldOutcomes(t, Head(fields), board)}

(***************************************************************************)
(* CreateDraftIssue: the draft issue and the field updates.                *)
(***************************************************************************)
CreateCall(mgr, answer) ==
    [call |-> "addProjectV2DraftIssue", projectID |-> mgr.projectID, itemID |-> NilID,
     fieldID |-> NilID, optionID |-> "", answer |-> answer]

UpdateCall(mgr, itemID, fieldID, optionIDStr, answer) ==
    [call |-> "updateProjectV2ItemFieldValue", projectID |-> mgr.projectID,
     itemID |-> itemID, fieldID |-> fieldID, optionID |-> optionIDStr,
     answer |-> answer]

\* the ID of the item the remote creates
ItemID == ID("PVTI_1")

fieldUpdates(t) ==
    <<[fieldID |-> t.k8sReleaseFieldID, optionID |-> t.k8sReleaseValueID,
       fieldName |-> "K8s Release"],
      [fieldID |-> t.viewFieldID, optionID |-> t.viewValueID,
       fieldName |-> "View"],
      [fieldID |-> t.statusFieldID, optionID |-> t.statusValueID,
       fieldName |-> "Status"],
      [fieldID |-> t.boardFieldID, optionID |-> t.boardValueID,
       fieldName |-> "Testgrid Board"]>>

\* update.fieldID != "" && update.optionID != "": the ID of a role that was not
\* resolved is nil, which differs from the ID holding "", so the guard holds
\* for it; the remote never sends an empty ID
updateGuard(update) == update.fieldID # ID("") /\ update.optionID # ID("")

\* faulty variant: the error of the create mutation is dropped
createErrDropped(cAnswer) == NilErr

\* the error CreateDraftIssue returns when the create mutation answered cAnswer
createErr(cAnswer) ==
    IF cAnswer # "ok"
    THEN Errorf("failed to create draft issue", <<cAnswer>>)
    ELSE NilErr

\* the loop over fieldUpdates from index j; uAnswer[j] is the remote's answer
\* to the update of fieldUpdates[j]; acc holds the calls and the warnings so far
RECURSIVE updateLoop(_, _, _, _, _, _)
updateLoop(mgr, updates, j, itemID, uAnswer, acc) ==
    IF j > Len(updates)
    THEN acc
    ELSE LET update == updates[j]
         IN  IF updateGuard(update)
             THEN LET optionIDStr == Sprintf_s(update.optionID)
                      call == UpdateCall(mgr, itemID, update.fieldID, optionIDStr,
                                         uAnswer[j])
                  IN  updateLoop(mgr, updates, j + 1, itemID, uAnswer,
                         [calls    |-> Append(acc.calls, call),
                          warnings |-> IF uAnswer[j] # "ok"
                                       THEN Append(acc.warnings, update.fieldName)
                                       ELSE acc.warnings])
             ELSE updateLoop(mgr, updates, j + 1, itemID, uAnswer, acc)

\* faulty variant: a failed update is returned as the error of the operation
returnUpdateFailure(acc) ==
    IF acc.warnings # <<>>
    THEN Errorf("failed to update field", <<acc.warnings[1]>>)
    ELSE NilErr

\* the error CreateDraftIssue returns after the loop over fieldUpdates
returnAfterUpdates(acc) == NilErr

\* the answers the remote may give to a mutation
MutateAnswers == {"ok", "TransportError"}

\* CreateDraftIssue from the create mutation on, with the locals resolved to t
createAndUpdate(mgr, callsQ, t, cAnswer, uAnswer) ==
    LET callsC == Append(callsQ, CreateCall(mgr, cAnswer))
    IN  IF createErr(cAnswer) # NilErr
        THEN [calls |-> callsC, err |-> createErr(cAnswer),
              warnings |-> <<>>, targets |-> t]
        ELSE LET acc == updateLoop(mgr, fieldUpdates(t), 1, ItemID, uAnswer,
                                   [calls |-> callsC, warnings |-> <<>>])
             IN  [calls |-> acc.calls, err |-> returnAfterUpdates(acc),
                  warnings |-> acc.warnings, targets |-> t]

\* what a call of CreateDraftIssue may do and return when the remote holds
\* nodes: one result for every answer of the remote to the query, to the
\* create and to the four updates, and every order of the ranges over maps
createDraftIssue(mgr, nodes, title, body, board) ==
    IF mgr.githubClient.isNil
    THEN {[calls |-> <<>>, err |-> ErrNilClient, warnings |-> <<>>,
           targets |-> ZeroTargets]}
    ELSE UNION {
        LET gpf == getProjectFields(mgr, nodes, qAnswer)
        IN  IF gpf.err # NilErr
            THEN {[calls |-> gpf.calls,
                   err |-> Errorf("failed to get project fields", gpf.err),
                   warnings |-> <<>>, targets |-> ZeroTargets]}
            ELSE {createAndUpdate(mgr, gpf.calls, t, cAnswer, uAnswer) :
                     t \in resolveOutcomes(gpf.fields, board, ZeroTargets),
                     cAnswer \in MutateAnswers,
                     uAnswer \in [1..Len(fieldUpdates(ZeroTargets)) -> MutateAnswers]}
        : qAnswer \in QueryAnswers(mgr.githubClient)}

(***************************************************************************)
(* The inputs: credentials, remote projects, board arguments, answers.     *)
(***************************************************************************)
n_K8sRelease == <<"K","8","s"," ","R","e","l","e","a","s","e">>
n_K8sReleaseBoard == <<"K","8","s"," ","R","e","l","e","a","s","e"," ","B","o","a","r","d">>
n_View == <<"V","i","e","w">>
n_Status == <<"S","t","a","t","u","s">>
n_SubStatus == <<"S","u","b"," ","s","t","a","t","u","s">>
n_TestgridBoard == <<"T","e","s","t","g","r","i","d"," ","B","o","a","r","d">>
o_v130 == <<"v","1",".","3","0">>
o_v132 == <<"v","1",".","3","2">>
o_stable == <<"s","t","a","b","l","e">>
o_132rc == <<"1",".","3","2"," ","r","c">>
o_v14 == <<"v","1",".","4">>
o_IssueTracking == <<"I","s","s","u","e","-","T","r","a","c","k","i","n","g">>
o_issue_tracking == <<"i","s","s","u","e"," ","t","r","a","c","k","i","n","g">>
o_Drafting == <<"D","r","a","f","t","i","n","g">>
o_Done == <<"D","o","n","e">>
o_master_blocking == <<"m","a","s","t","e","r","-","b","l","o","c","k","i","n","g">>
o_master_informing == <<"m","a","s","t","e","r","-","i","n","f","o","r","m","i","n","g">>
b_blocking == <<"s","i","g","-","r","e","l","e","a","s","e","-","m","a","s","t","e","r","-","b","l","o","c","k","i","n","g">>
b_Informing == <<"s","i","g","-","r","e","l","e","a","s","e","-","M","a","s","t","e","r","-","I","n","f","o","r","m","i","n","g">>

Tokens == {"", "ghp_token"}

Boards == {b_blocking, b_Informing}

Title == "flake: TestFoo"

Body == "body text"

FieldID(i) == ID("F" \o ToString(i))

Opt(i, k, name) == [ID |-> ID("F" \o ToString(i) \o "_O" \o ToString(k)), Name |-> name]

\* the nodes the remote project may hold at position i
NodesAt(i) ==
    {SingleSelectNode(FieldID(i), n_K8sRelease,
        <<Opt(i, 1, o_v130), Opt(i, 2, o_v132), Opt(i, 3, o_stable)>>),
     SingleSelectNode(FieldID(i), n_K8sRelease,
        <<Opt(i, 1, o_v132), Opt(i, 2, o_132rc), Opt(i, 3, o_v14)>>),
     SingleSelectNode(FieldID(i), n_K8sReleaseBoard,
        <<Opt(i, 1, o_stable), Opt(i, 2, o_master_blocking)>>),
     SingleSelectNode(FieldID(i), n_View,
        <<Opt(i, 1, o_IssueTracking), Opt(i, 2, o_issue_tracking)>>),
     SingleSelectNode(FieldID(i), n_Status,
        <<Opt(i, 1, o_Done), Opt(i, 2, o_Drafting), Opt(i, 3, o_Done)>>),
     IterationNode(FieldID(i), n_SubStatus),
     SingleSelectNode(FieldID(i), n_TestgridBoard,
        <<Opt(i, 1, o_master_blocking), Opt(i, 2, o_master_informing)>>),
     OtherNode}

Schemas ==
    UNION {{s \in [1..n -> UNION {NodesAt(i) : i \in 1..n}] :
                \A i \in 1..n : s[i] \in NodesAt(i)} : n \in 0..MaxNodes}

NoOp == [name |-> "none", title |-> "", body |-> "", board |-> <<>>]

NoRet == [err |-> NilErr, fields |-> <<>>]

(***************************************************************************)
(* The specification of the ProjectManager: one call of one operation on a *)
(* manager built by NewProjectManager.                                     *)
(***************************************************************************)
Init ==
    /\ token \in Tokens
    /\ g = NewProjectManager(token)
    /\ schema \in Schemas
    /\ pc = "idle"
    /\ op = NoOp
    /\ calls = <<>>
    /\ ret = NoRet
    /\ targets = ZeroTargets
    /\ warnings = <<>>
    /\ v1 = <<>>
    /\ v2 = <<>>
    /\ cmp = <<>>

GetProjectFields ==
    /\ pc = "idle"
    /\ \E qAnswer \in QueryAnswers(g.githubClient) :
         LET r == getProjectFields(g, schema, qAnswer)
         IN  /\ calls' = r.calls
             /\ ret' = [err |-> r.err, fields |-> r.fields]
    /\ op' = [NoOp EXCEPT !.name = "GetProjectFields"]
    /\ pc' = "done"
    /\ UNCHANGED <<token, g, schema, targets, warnings, v1, v2, cmp>>

CreateDraftIssue(title, body, board) ==
    /\ pc = "idle"
    /\ \E r \in createDraftIssue(g, schema, title, body, board) :
         /\ calls' = r.calls
         /\ ret' = [err |-> r.err, fields |-> <<>>]
         /\ targets' = r.targets
         /\ warnings' = r.warnings
    /\ op' = [name |-> "CreateDraftIssue", title |-> title, body |-> body,
              board |-> board]
    /\ pc' = "done"
    /\ UNCHANGED <<token, g, schema, v1, v2, cmp>>

Next ==
    \/ GetProjectFields
    \/ \E board \in Boards : CreateDraftIssue(Title, Body, board)

Spec == Init /\ [][Next]_vars

(***************************************************************************)
(* The specification of the version utility: compareVersions applied to    *)
(* two dotted strings of at most MaxParts components.                      *)
(***************************************************************************)
OverInt == <<"9","2","2","3","3","7","2","0","3","6","8","5","4","7","7","5","8","0","8">>

Components == {<<"0">>, <<"4">>, <<"3","2">>, MaxInt, OverInt}

RECURSIVE Join(_)
Join(parts) ==
    IF Len(parts) = 1
    THEN parts[1]
    ELSE parts[1] \o <<".">> \o Join(Tail(parts))

Versions ==
    UNION {{Join(parts) : parts \in [1..n -> Components]} : n \in 1..MaxParts}

InitVersions ==
    /\ token = "ghp_token"
    /\ g = NewProjectManager(token)
    /\ schema = <<>>
    /\ pc = "idle"
    /\ op = NoOp
    /\ calls = <<>>
    /\ ret = NoRet
    /\ targets = ZeroTargets
    /\ warnings = <<>>
    /\ v1 \in Versions
    /\ v2 \in Versions
    /\ cmp = <<>>

CompareVersions ==
    /\ cmp = <<>>
    /\ cmp' = <<compareVersions(v1, v2)>>
    /\ UNCHANGED <<token, g, schema, pc, op, calls, ret, targets, warnings, v1, v2>>

NextVersions == CompareVersions

SpecVersions == InitVersions /\ [][NextVersions]_vars

(***************************************************************************)
(* Properties of compareVersions (under SpecVersions).                     *)
(***************************************************************************)
\* component i of a dotted string, "0" past its last component
PaddedPart(v, i) ==
    LET parts == Split(v, ".")
    IN  IF i <= Len(parts) THEN parts[i] ELSE <<"0">>

NumParts(v) == Len(Split(v, "."))

\* a and b denote the same integers, component by component, once the shorter
\* is padded with zero components
EqualAfterPadding(a, b) ==
    \A i \in 1..(IF NumParts(a) > NumParts(b) THEN NumParts(a) ELSE NumParts(b)) :
        StripZeros(PaddedPart(a, i)) = StripZeros(PaddedPart(b, i))

\* every component of v is a number an int holds
FitsInt(v) ==
    \A i \in 1..NumParts(v) : ~NumLess(MaxInt, StripZeros(PaddedPart(v, i)))

v_1_32 == <<"1",".","3","2">>
v_1_4 == <<"1",".","4">>
v_1_30 == <<"1",".","3","0">>
v_1_30_0 == <<"1",".","3","0",".","0">>

\* the value of compareVersions for every two versions
Compared == [a \in Versions |-> [b \in Versions |-> compareVersions(a, b)]]

\* compareVersions is reflexive, antisymmetric and transitive on the versions
\* compared, and gives the values the specification lists
OrderLaws ==
    /\ Compared[v1][v1] = 0
    /\ Compared[v2][v1] = 0 - cmp[1]
    /\ \A c \in Versions :
          (cmp[1] <= 0 /\ Compared[v2][c] <= 0) => Compared[v1][c] <= 0
    /\ compareVersions(v_1_32, v_1_4) = 1
    /\ compareVersions(v_1_30, v_1_30_0) = 0

Returned(name) == pc = "done" /\ op.name = name

\* the query was issued and the remote answered it with the fields
QueryOk == Len(calls) >= 1 /\ calls[1].call = "query" /\ calls[1].answer = "ok"

QueryFailed == Len(calls) >= 1 /\ calls[1].call = "query" /\ calls[1].answer # "ok"

IsCreate(c) == c.call = "addProjectV2DraftIssue"

IsUpdate(c) == c.call = "updateProjectV2ItemFieldValue"

CreateOk == QueryOk /\ Len(calls) >= 2 /\ IsCreate(calls[2]) /\ calls[2].answer = "ok"

CreateFailed == QueryOk /\ Len(calls) >= 2 /\ IsCreate(calls[2]) /\ calls[2].answer # "ok"

UpdateCalls == SelectSeq(calls, IsUpdate)

\* the fields a successful discovery finds in the remote project
Discovered == fieldsLoop(schema)

\* an ID that is neither nil nor the empty string
NonEmpty(id) == id # NilID /\ id # ID("")

\* C1: when discovery and the creation of the draft item succeed,
\* CreateDraftIssue returns nil whatever the answers to the field updates.
C1_UpdateFailuresNotReturned ==
    (Returned("CreateDraftIssue") /\ CreateOk) => ret.err = NilErr

\* the Status update alone failed, the three others were attempted, nil returned
C1_Witness ==
    /\ Returned("CreateDraftIssue")
    /\ CreateOk
    /\ Len(UpdateCalls) = 4
    /\ UpdateCalls[3].answer = "TransportError"
    /\ \A k \in {1, 2, 4} : UpdateCalls[k].answer = "ok"
    /\ NonEmpty(targets.statusFieldID)
    /\ NonEmpty(targets.statusValueID)
    /\ warnings = <<"Status">>
    /\ ret.err = NilErr

\* the four roles in the order of the claim, with the IDs resolved for them
RolesInOrder ==
    <<[fieldID |-> targets.k8sReleaseFieldID, valueID |-> targets.k8sReleaseValueID],
      [fieldID |-> targets.viewFieldID, valueID |-> targets.viewValueID],
      [fieldID |-> targets.statusFieldID, valueID |-> targets.statusValueID],
      [fieldID |-> targets.boardFieldID, valueID |-> targets.boardValueID]>>

BothNonEmpty(role) == NonEmpty(role.fieldID) /\ NonEmpty(role.valueID)

\* C2: after the draft item is created, the update calls are exactly those of
\* the roles, in the order Release, View, Status, Board, whose field ID and
\* value ID are both non-empty; a role with an empty ID produces no call.
C2_UpdatesAreResolvedRolesInOrder ==
    (Returned("CreateDraftIssue") /\ CreateOk) =>
        LET expected == SelectSeq(RolesInOrder, BothNonEmpty)
        IN  /\ Len(UpdateCalls) = Len(expected)
            /\ \A k \in 1..Len(expected) :
                  /\ UpdateCalls[k].fieldID = expected[k].fieldID
                  /\ UpdateCalls[k].optionID = expected[k].valueID.val

\* C3: a failed query ends CreateDraftIssue with the query as its only call, a
\* failed create with the query and the create as its only calls; each time
\* the one error returned names the step and carries the remote's answer.
C3_FatalFailureAborts ==
    Returned("CreateDraftIssue") =>
        /\ QueryFailed =>
              /\ Len(calls) = 1
              /\ ret.err = <<"failed to get project fields",
                             "failed to query project fields", calls[1].answer>>
        /\ CreateFailed =>
              /\ Len(calls) = 2
              /\ ret.err = <<"failed to create draft issue", calls[2].answer>>

\* the create mutation failed: an error is returned and no update was issued
C3_Witness ==
    /\ Returned("CreateDraftIssue")
    /\ CreateFailed
    /\ ret.err # NilErr
    /\ UpdateCalls = <<>>

\* C4: a manager built with an empty credential fails every operation with
\* the not-configured error and attempts no remote call.
C4_NoCredentialNoCall ==
    (pc = "done" /\ token = "") => (calls = <<>> /\ ret.err = ErrNilClient)

\* the discovered field that has the given ID, when there is one
HasField(id) == \E k \in 1..Len(Discovered) : Discovered[k].ID = id

FieldOf(id) == Discovered[CHOOSE k \in 1..Len(Discovered) : Discovered[k].ID = id]

IsRole(field, role) == Contains(ToLower(field.Name), role)

\* C5: the Release value is an option of the Release field whose version is
\* the greatest of the field's options that parse; an option that yields no
\* version is never selected; when no option parses the value stays empty.
C5_ReleaseIsGreatestVersion ==
    (Returned("CreateDraftIssue") /\ QueryOk /\ HasField(targets.k8sReleaseFieldID)) =>
        LET f      == FieldOf(targets.k8sReleaseFieldID)
            parsed == {n \in DOMAIN f.Options : extractVersion(n) # <<>>}
        IN  IF parsed = {}
            THEN targets.k8sReleaseValueID = NilID
            ELSE \E n \in parsed :
                    /\ f.Options[n] = targets.k8sReleaseValueID
                    /\ \A m \in parsed :
                          compareVersions(extractVersion(n), extractVersion(m)) >= 0

\* the option names of a node in the order discovered, each name once
RECURSIVE discoveryOrder(_, _)
discoveryOrder(opts, seen) ==
    IF opts = <<>> THEN <<>>
    ELSE IF Head(opts).Name \in seen THEN discoveryOrder(Tail(opts), seen)
    ELSE <<Head(opts).Name>> \o discoveryOrder(Tail(opts), seen \cup {Head(opts).Name})

\* the resolution that visits the options of every field in the discovered order
RECURSIVE resolveInDiscoveryOrder(_, _, _)
resolveInDiscoveryOrder(nodes, board, t) ==
    IF nodes = <<>>
    THEN t
    ELSE LET fs == fieldsLoop(<<Head(nodes)>>)
         IN  IF fs = <<>>
             THEN resolveInDiscoveryOrder(Tail(nodes), board, t)
             ELSE LET o == discoveryOrder(Head(nodes).ProjectV2SingleSelectField.Options, {})
                      f == fs[1]
                  IN  resolveInDiscoveryOrder(Tail(nodes), board,
                          statusBlock(boardBlock(viewBlock(releaseBlock(t, f, o), f, o),
                                                 f, board, o), f, o))

\* C6: when several options of a field qualify, the one selected is the first
\* in the discovered order, so the four option IDs are a function of the input.
C6_FirstInDiscoveryOrder ==
    (Returned("CreateDraftIssue") /\ QueryOk) =>
        targets = resolveInDiscoveryOrder(schema, op.board, ZeroTargets)

\* the options of the discovered Board fields that match the board argument
\* once both are lower-cased
BoardMatches ==
    UNION {{Discovered[k].Options[n] :
                n \in {m \in DOMAIN Discovered[k].Options :
                          Contains(ToLower(op.board), ToLower(m))}} :
           k \in {j \in 1..Len(Discovered) : IsRole(Discovered[j], s_board)}}

\* C7: an option of the Board field is selected exactly when its name,
\* lower-cased, is a substring of the lower-cased board argument, whatever the
\* case the board argument is given in.
C7_BoardMatchIgnoresCase ==
    (Returned("CreateDraftIssue") /\ QueryOk) =>
        IF BoardMatches = {}
        THEN targets.boardValueID = NilID
        ELSE targets.boardValueID \in BoardMatches

\* the positions of the nodes of the remote project that are single-select or
\* iteration fields
Recognised ==
    {i \in 1..Len(schema) : schema[i].Typename \in {TSingleSelect, TIteration}}

\* the position of the k-th such node
RecognisedAt(k) ==
    CHOOSE i \in Recognised : Cardinality({j \in Recognised : j <= i}) = k

\* C9: when the query succeeds GetProjectFields returns, without error and in
\* the order of the query, exactly the single-select and iteration nodes: a
\* single-select node with its id, name and a mapping from each option name to
\* the id of an option of that name, an iteration node with its id, name and
\* an empty mapping; any other node is left out.
C9_DiscoveryKeepsKnownVariants ==
    (Returned("GetProjectFields") /\ QueryOk) =>
        /\ ret.err = NilErr
        /\ Len(ret.fields) = Cardinality(Recognised)
        /\ \A k \in 1..Len(ret.fields) :
              LET node == schema[RecognisedAt(k)]
                  f    == ret.fields[k]
                  ss   == node.ProjectV2SingleSelectField
              IN  IF node.Typename = TSingleSelect
                  THEN /\ f.ID = ss.ID
                       /\ f.Name = ss.Name
                       /\ DOMAIN f.Options = {ss.Options[j].Name : j \in 1..Len(ss.Options)}
                       /\ \A n \in DOMAIN f.Options :
                             \E j \in 1..Len(ss.Options) :
                                 ss.Options[j].Name = n /\ ss.Options[j].ID = f.Options[n]
                  ELSE /\ f.ID = node.ProjectV2IterationField.ID
                       /\ f.Name = node.ProjectV2IterationField.Name
                       /\ DOMAIN f.Options = {}

\* a node of an unrecognised variant before a single-select node: one field is
\* returned, with its options, and no error
C9_Witness ==
    /\ Returned("GetProjectFields")
    /\ QueryOk
    /\ Len(schema) = 2
    /\ schema[1].Typename = TOther
    /\ schema[2].Typename = TSingleSelect
    /\ Len(ret.fields) = 1
    /\ DOMAIN ret.fields[1].Options # {}
    /\ ret.err = NilErr

\* C10: every update mutation that carries a field ID and an option ID carries
\* an option of the discovered field whose ID it carries.  (An update sent with
\* a nil field ID or with the text of a nil option ID is the subject of C2 and
\* is left out here.)
C10_OptionBelongsToField ==
    Returned("CreateDraftIssue") =>
        \A k \in 1..Len(UpdateCalls) :
            LET u == UpdateCalls[k]
            IN  (u.fieldID # NilID /\ u.optionID # Sprintf_s(NilID)) =>
                    /\ HasField(u.fieldID)
                    /\ \E n \in DOMAIN FieldOf(u.fieldID).Options :
                          Sprintf_s(FieldOf(u.fieldID).Options[n]) = u.optionID

====
